---- MODULE Spec2Model ----
(***************************************************************************)
(* go2cache: the cache table (cacheTable.go) and the cache item.           *)
(* Every goroutine is a thread with a call stack of frames; one action is  *)
(* one stretch of code between two points where the goroutine can block or *)
(* where it has just released a lock.                                      *)
(***************************************************************************)
EXTENDS Integers, Sequences, FiniteSets, Bags, TLC

\* ---------------------------------------------------------------- bounds
Threads == {"t1", "t2", "t3"}
\* The goroutines of the specifications with two of them.
Pair == {"t1", "t2"}
Keys == {"a", "b"}
LifeSpans == {0, 1, 2}
Data == {"x"}
Callbacks == {"f"}
MaxTime == 2
MaxItems == 3
MaxAccess == 1
MaxCb == 1
MaxDepth == 3
MaxOps == 2
MaxCalls == 3
\* The smaller inputs of the specifications that make more calls.
OneKey == {"a"}
ShortLifeSpans == {0, 1}
ShortTime == 1

NoThread == "none"
Nil == 0

\* ----------------------------------------------------------------- state
VARIABLES
  now,               \* time.Now()
  heap,              \* the CacheItem objects ever created, by address 1..Len
  items,             \* table.items: key -> address, Nil when absent
  cleanupTimer,      \* table.cleanupTimer: the timer the table points at
  cleanupInterval,   \* table.cleanupInterval
  orphans,           \* armed timers the table no longer points at (bag of deadlines)
  addedItem,         \* table.addedItem
  aboutToDeleteItem, \* table.aboutToDeleteItem
  loadData,          \* table.loadData is set
  mu,                \* table.RWMutex: the thread holding the write lock
  stack,             \* per thread: the call stack, innermost frame last
  procs,             \* the goroutines the program runs
  nops,              \* calls the user's code has made so far
  ret,               \* the value the last step returned to the user's code, if it did
  fired              \* per item: how often the first callback of each list ran for it

tableVars == <<items, cleanupTimer, cleanupInterval, orphans, mu>>
cfgVars == <<addedItem, aboutToDeleteItem, loadData>>
ghostVars == <<fired>>
runVars == <<procs, nops>>
vars == <<now, heap, tableVars, cfgVars, stack, runVars, ret, ghostVars>>

\* A timer that will not fire (any more): the nil pointer of a new table, a timer
\* that was stopped and a timer that has fired are one value here, since the code
\* does nothing with any of them but call Stop, which does nothing then.
NoTimer == [st |-> "idle", at |-> 0]
EmptyMap == [k \in Keys |-> Nil]

\* ------------------------------------------------------------ the item
NewCacheItem(key, lifeSpan, data, t) ==
  [key |-> key, data |-> data, lifeSpan |-> lifeSpan, createdOn |-> t,
   accessedOn |-> t, accessCount |-> 0, aboutToExpire |-> <<>>,
   readers |-> 0, writer |-> NoThread]

NoFired == [del |-> 0, exp |-> 0]

\* item.RLock() returns at once: no writer holds or has announced the lock.
CanRLock(i) == heap[i].writer = NoThread

\* ------------------------------------------------------------- frames
Frame(fn, pc, key, item) ==
  [fn |-> fn, pc |-> pc, key |-> key, item |-> item,
   cbs |-> <<>>, ci |-> 1, expDur |-> 0, now |-> 0, small |-> 0, todo |-> {},
   live |-> TRUE, old |-> EmptyMap, exp |-> {}, due |-> <<>>, trace |-> <<>>,
   over |-> Nil]

\* What a call returned.
Val(fn, key, item, ok, err, trace) ==
  [fn |-> fn, key |-> key, item |-> item, ok |-> ok, err |-> err, trace |-> trace,
   exp |-> {}, n |-> 0]
NoRet == Val("none", "", Nil, FALSE, "nil", <<>>)

Top(t) == stack[t][Len(stack[t])]
Idle(t) == stack[t] = <<>>
At(t, fn, pc) == ~Idle(t) /\ Top(t).fn = fn /\ Top(t).pc = pc
SetTop(s, f) == [s EXCEPT ![Len(s)] = f]
Pop(s, n) == SubSeq(s, 1, Len(s) - n)
\* The n innermost frames of s return val: to the user's code when they were all
\* there was, else to the callback that made the call (which drops the value).
Returned(s, n, val) == IF Len(s) = n THEN val ELSE NoRet

\* The range loops over the table's current map object that are under way.
Ranging(f) == f.fn = "expirationCheck" /\ f.pc # "ec_lock" /\ f.live
LiveSweeps(st) ==
  {td \in Threads \X (1..(2 * MaxDepth)) :
     td[2] <= Len(st[td[1]]) /\ Ranging(st[td[1]][td[2]])}

\* An entry created during an iteration may be produced by it or skipped.
Created(st, k, V) ==
  [t \in Threads |-> [d \in 1..Len(st[t]) |->
     IF <<t, d>> \in V THEN [st[t][d] EXCEPT !.todo = @ \cup {k}] ELSE st[t][d]]]
\* An entry removed before the iteration reached it is not produced.
Removed(st, k) ==
  [t \in Threads |-> [d \in 1..Len(st[t]) |->
     IF Ranging(st[t][d]) THEN [st[t][d] EXCEPT !.todo = @ \ {k}] ELSE st[t][d]]]
\* Flush replaces the map object: running iterations go on over the old one.
Replaced(st, m) ==
  [t \in Threads |-> [d \in 1..Len(st[t]) |->
     IF Ranging(st[t][d]) THEN [st[t][d] EXCEPT !.live = FALSE, !.old = m]
     ELSE st[t][d]]]

\* ------------------------------------------------------------- timers
Stop(tm) == NoTimer
Armed == (IF cleanupTimer.st = "armed" THEN 1 ELSE 0) + BagCardinality(orphans)

\* ---------------------------------------------------------------- init
Fresh ==
  /\ now = 0
  /\ heap = <<>>
  /\ items = EmptyMap
  /\ cleanupTimer = NoTimer
  /\ cleanupInterval = 0
  /\ orphans = EmptyBag
  /\ addedItem = <<>>
  /\ aboutToDeleteItem = <<>>
  /\ loadData = FALSE
  /\ mu = NoThread
  /\ stack = [t \in Threads |-> <<>>]
  /\ nops = 0
  /\ ret = NoRet
  /\ fired = <<>>

Init == Fresh /\ procs = Pair
\* Three goroutines.
Init3 == Fresh /\ procs = Threads

\* --------------------------------------------------------- pure pieces
\* cacheTable.go:129
Expired(n, accessedOn, lifeSpan) == n - accessedOn >= lifeSpan
\* cacheTable.go:132-134
Smallest(small, remaining) ==
  IF small = 0 \/ remaining < small THEN remaining ELSE small
\* cacheTable.go:188
NeedsCheck(lifeSpan, expDur) == lifeSpan > 0 /\ (expDur = 0 \/ lifeSpan < expDur)
\* cacheTable.go:179
Store(m, k, i) == [m EXCEPT ![k] = i]
\* A removal that removes nothing.
DeleteEntry_keep(m, k) == m
\* cacheTable.go:174
DeleteEntry(m, k) == [m EXCEPT ![k] = Nil]
\* cacheTable.go:154, 211, 221
Present(m, k) == m[k] # Nil

\* One more call of the user's code, which makes n at most.
Called(n) == nops < n /\ nops' = nops + 1
\* A goroutine that may start a call of the table's interface.
Free(t) == t \in procs /\ Idle(t)

\* ------------------------------------------------------------------ Add
\* Every operation below is written for a goroutine t whose stack is s at the
\* place of the call: empty for a call from the user's code, the stack of a
\* running callback for a call from inside it. fd is `fired` at that place.

\* Add, line 193: NewCacheItem reads the clock before the table lock is asked for.
Add_call(t, s, fd, k, l, d) ==
  /\ Len(heap) < MaxItems
  /\ heap' = Append(heap, NewCacheItem(k, l, d, now))
  /\ fired' = Append(fd, NoFired)
  /\ stack' = [stack EXCEPT ![t] = Append(s, Frame("Add", "add_lock", k, Len(heap) + 1))]
  /\ ret' = NoRet
  /\ UNCHANGED <<now, tableVars, cfgVars, procs>>

\* addInternal, lines 178-182, under the lock its caller took: the insert, then
\* the lock is dropped. f is the caller's frame, i the item, l its lifespan. The
\* frame keeps the item the insert has replaced, if any, in `over`.
addInternal(t, s, f, i, l, V) ==
  /\ items' = Store(items, f.key, i)
  /\ stack' = Created([stack EXCEPT ![t] =
                 Append(s, [f EXCEPT !.pc = "ai_cb", !.item = i, !.cbs = addedItem,
                                     !.ci = 1, !.expDur = cleanupInterval,
                                     !.over = items[f.key]])],
                 f.key, IF Present(items, f.key) THEN {} ELSE V)
  /\ mu' = NoThread

\* Add, lines 194-195.
Add_lock(t) ==
  /\ At(t, "Add", "add_lock") /\ mu = NoThread
  /\ \E V \in SUBSET LiveSweeps(stack) :
        addInternal(t, Pop(stack[t], 1), Top(t), Top(t).item,
                    heap[Top(t).item].lifeSpan, V)
  /\ ret' = NoRet
  /\ UNCHANGED <<now, heap, cleanupTimer, cleanupInterval, orphans, cfgVars, runVars,
                 fired>>

\* What Add and NotFoundAdd return once addInternal is back.
AddResult(f) ==
  IF f.fn = "NotFoundAdd" THEN Val("NotFoundAdd", f.key, f.item, TRUE, "nil", <<>>)
  ELSE Val("Add", f.key, f.item, TRUE, "nil", <<>>)

\* addInternal, lines 188-190: the sweep is called inline, or the call is over.
addInternal_check(t) ==
  /\ ~Idle(t) /\ Top(t).pc = "ai_cb" /\ Top(t).ci > Len(Top(t).cbs)
  /\ IF NeedsCheck(heap[Top(t).item].lifeSpan, Top(t).expDur)
     THEN /\ stack' = [stack EXCEPT ![t] =
                Append(SetTop(@, [Top(t) EXCEPT !.pc = "ai_call"]),
                       Frame("expirationCheck", "ec_lock", Top(t).key, Nil))]
          /\ ret' = NoRet
     ELSE /\ stack' = [stack EXCEPT ![t] = Pop(@, 1)]
          /\ ret' = Returned(stack[t], 1, AddResult(Top(t)))
  /\ UNCHANGED <<now, heap, tableVars, cfgVars, runVars, ghostVars>>

\* ---------------------------------------------------------- NotFoundAdd
\* A NotFoundAdd that looks the key up under the lock, releases it, and leaves the
\* insert to Add.
NotFoundAdd_racy(t, s, fd, k, l, d) ==
  /\ mu = NoThread
  /\ IF Present(items, k)
     THEN /\ stack' = [stack EXCEPT ![t] = s]
          /\ ret' = Returned(s, 0, Val("NotFoundAdd", k, Nil, FALSE, "nil", <<>>))
          /\ fired' = fd
          /\ UNCHANGED <<now, heap, tableVars, cfgVars, procs>>
     ELSE Add_call(t, s, fd, k, l, d)

\* NotFoundAdd, lines 210-216: the check and the insert under one hold of the lock.
NotFoundAdd(t, s, fd, k, l, d) ==
  /\ mu = NoThread
  /\ IF Present(items, k)
     THEN /\ stack' = [stack EXCEPT ![t] = s]
          /\ ret' = Returned(s, 0, Val("NotFoundAdd", k, Nil, FALSE, "nil", <<>>))
          /\ fired' = fd
          /\ UNCHANGED <<heap, items, mu>>
     ELSE /\ Len(heap) < MaxItems
          /\ heap' = Append(heap, NewCacheItem(k, l, d, now))
          /\ fired' = Append(fd, NoFired)
          /\ \E V \in SUBSET LiveSweeps(stack) :
                addInternal(t, s, Frame("NotFoundAdd", "nfa_lock", k, Nil),
                            Len(heap) + 1, l, V)
          /\ ret' = NoRet
  /\ UNCHANGED <<now, cleanupTimer, cleanupInterval, orphans, cfgVars, procs>>

\* ------------------------------------------------------- deleteInternal
\* A deleteInternal that calls none of the table's callbacks.
deleteInternal_enter_skip(t, s, k) ==
  /\ mu' = NoThread
  /\ stack' = [stack EXCEPT ![t] =
       Append(s, [Frame("deleteInternal", "di_cb", k, items[k]) EXCEPT
                     !.due = aboutToDeleteItem])]

\* A lookup that fails without an error.
NotFound_ok(k) == Val("Delete", k, Nil, TRUE, "nil", <<>>)

\* deleteInternal, lines 154-159, entered with the table locked, for a key that is
\* in the table's current map: the lock is dropped for the callbacks. s is the
\* stack with the caller's frame on top, waiting for the return.
deleteInternal_enter(t, s, k) ==
  /\ mu' = NoThread
  /\ stack' = [stack EXCEPT ![t] =
       Append(s, [Frame("deleteInternal", "di_cb", k, items[k]) EXCEPT
                     !.cbs = aboutToDeleteItem, !.ci = 1, !.due = aboutToDeleteItem])]

\* What deleteInternal returns for a key that is not in the map (lines 155-157).
NotFound(k) == Val("Delete", k, Nil, FALSE, "ErrKeyNotFound", <<>>)

\* --------------------------------------------------------------- Delete
\* Delete, lines 199-201, up to the point where deleteInternal drops the lock; for
\* an absent key the error is returned and the deferred Unlock releases the table.
Delete(t, s, fd, k) ==
  /\ mu = NoThread
  /\ IF Present(items, k)
     THEN /\ deleteInternal_enter(t, Append(s, Frame("Delete", "del_call", k, Nil)), k)
          /\ ret' = NoRet
     ELSE /\ stack' = [stack EXCEPT ![t] = s]
          /\ ret' = Returned(s, 0, NotFound(k))
          /\ mu' = NoThread
  /\ fired' = fd
  /\ UNCHANGED <<now, heap, items, cleanupTimer, cleanupInterval, orphans, cfgVars,
                 procs>>

\* ---------------------------------------------------------------- Value
\* A miss that is reported as ErrKeyNotFound whether a loader is set or not.
Miss_plain(k, loader) == Val("Value", k, Nil, FALSE, "ErrKeyNotFound", <<>>)

\* What Value returns when it has no item to return: line 234 with a loader that
\* returned nil, line 236 without a loader.
Miss(k, loader) ==
  Val("Value", k, Nil, FALSE,
      IF loader THEN "ErrKeyNotFoundOrLoadable" ELSE "ErrKeyNotFound", <<>>)

\* Value, lines 220-228 and 236: the lookup and the read of table.loadData under
\* the read lock. A hit goes on to KeepAlive, a miss to the loader if one is set.
Value(t, s, fd, k) ==
  /\ mu = NoThread
  /\ IF Present(items, k)
     THEN /\ heap[items[k]].accessCount < MaxAccess
          /\ stack' = [stack EXCEPT ![t] = Append(s, Frame("Value", "il_lock", k, items[k]))]
          /\ ret' = NoRet
     ELSE IF loadData
     THEN /\ stack' = [stack EXCEPT ![t] = Append(s, Frame("Value", "val_load", k, Nil))]
          /\ ret' = NoRet
     ELSE /\ stack' = [stack EXCEPT ![t] = s]
          /\ ret' = Returned(s, 0, Miss(k, FALSE))
  /\ fired' = fd
  /\ UNCHANGED <<now, heap, tableVars, cfgVars, procs>>

\* Value, lines 229-230 and 234: the loader returns nil.
Value_none(t) ==
  /\ At(t, "Value", "val_load")
  /\ stack' = [stack EXCEPT ![t] = Pop(@, 1)]
  /\ ret' = Returned(stack[t], 1, Miss(Top(t).key, TRUE))
  /\ UNCHANGED <<now, heap, tableVars, cfgVars, runVars, ghostVars>>

\* Value, lines 229-230: the loader returns an item it has made, with lifespan l
\* and data d.
Value_load(t, l, d) ==
  /\ At(t, "Value", "val_load")
  /\ Len(heap) < MaxItems
  /\ heap' = Append(heap, NewCacheItem(Top(t).key, l, d, now))
  /\ fired' = Append(fired, NoFired)
  /\ stack' = [stack EXCEPT ![t] =
        SetTop(@, [Top(t) EXCEPT !.pc = "val_add", !.item = Len(heap) + 1])]
  /\ ret' = NoRet
  /\ UNCHANGED <<now, tableVars, cfgVars, runVars>>

\* A Value that puts the loader's own object into the map.
Value_add_stored(t) ==
  /\ At(t, "Value", "val_add")
  /\ stack' = [stack EXCEPT ![t] =
        Append(SetTop(@, [Top(t) EXCEPT !.pc = "val_ret"]),
               Frame("Add", "add_lock", Top(t).key, Top(t).item))]
  /\ ret' = NoRet
  /\ UNCHANGED <<now, heap, tableVars, cfgVars, runVars, ghostVars>>

\* Value, line 231: table.Add with the key, and the lifespan and the data of the
\* loader's item.
Value_add(t) ==
  /\ At(t, "Value", "val_add")
  /\ nops' = nops
  /\ Add_call(t, SetTop(stack[t], [Top(t) EXCEPT !.pc = "val_ret"]), fired,
              Top(t).key, heap[Top(t).item].lifeSpan, heap[Top(t).item].data)

\* Value, line 232: Add is back, the loader's item is returned.
Value_return(t) ==
  /\ At(t, "Value", "val_ret")
  /\ stack' = [stack EXCEPT ![t] = Pop(@, 1)]
  /\ ret' = Returned(stack[t], 1, Val("Value", Top(t).key, Top(t).item, TRUE, "nil", <<>>))
  /\ UNCHANGED <<now, heap, tableVars, cfgVars, runVars, ghostVars>>

\* SetDataLoader, lines 60-64; f says whether the loader set is one (or nil).
SetDataLoader(t, f) ==
  /\ Free(t) /\ mu = NoThread
  /\ loadData' = f
  /\ ret' = NoRet
  /\ UNCHANGED <<now, heap, tableVars, addedItem, aboutToDeleteItem, stack, runVars,
                 ghostVars>>

\* item.Lock() with readers inside: the writer announces itself and waits; from
\* now on no new reader gets the item's lock.
KeepAlive_wait(t) ==
  /\ At(t, "Value", "il_lock")
  /\ heap[Top(t).item].writer = NoThread /\ heap[Top(t).item].readers > 0
  /\ heap' = [heap EXCEPT ![Top(t).item].writer = t]
  /\ stack' = [stack EXCEPT ![t] = SetTop(@, [Top(t) EXCEPT !.pc = "il_wait"])]
  /\ ret' = NoRet
  /\ UNCHANGED <<now, tableVars, cfgVars, runVars, ghostVars>>

\* part_000 lines 37-38.
Touch(item, n) == [item EXCEPT !.accessedOn = n, !.accessCount = @ + 1]

\* KeepAlive, part_000 lines 34-39, with no reader inside (any more); Value
\* returns the item.
KeepAlive(t) ==
  /\ \/ At(t, "Value", "il_lock") /\ heap[Top(t).item].writer = NoThread
     \/ At(t, "Value", "il_wait")
  /\ heap[Top(t).item].readers = 0
  /\ heap' = [heap EXCEPT ![Top(t).item] = [Touch(@, now) EXCEPT !.writer = NoThread]]
  /\ stack' = [stack EXCEPT ![t] = Pop(@, 1)]
  /\ ret' = Returned(stack[t], 1, Val("Value", Top(t).key, Top(t).item, TRUE, "nil", <<>>))
  /\ UNCHANGED <<now, tableVars, cfgVars, runVars, ghostVars>>

\* ---------------------------------------------------------------- Count
\* The table's mutex after Unlock was called on it while it was read-locked:
\* its reader count is off by one for good, and no Lock() returns any more.
Broken == "broken"

\* Goroutine u is at a table.Lock() it has not returned from: lines 194, 110 and
\* 172.
AtLock(u) ==
  \/ At(u, "Add", "add_lock")
  \/ At(u, "expirationCheck", "ec_lock")
  \/ At(u, "deleteInternal", "di_exp") /\ Top(u).ci > Len(Top(u).cbs)

\* Count, lines 48-52: RLock(), len(table.items), and the deferred Unlock() of a
\* mutex that is read-locked. sync.RWMutex.Unlock ends the program there with
\* "fatal error: sync: Unlock of unlocked RWMutex" (no goroutine is left and
\* none starts), unless a writer has announced
\* itself in Lock() since the RLock(): then Unlock and Count return, the reader
\* is never taken off the mutex, and that writer and every later one wait for
\* it for ever.
Count(t, s, fd) ==
  /\ mu = NoThread
  /\ mu' = Broken
  /\ fired' = fd
  /\ \/ /\ procs' = {}
        /\ stack' = [u \in Threads |-> <<>>]
        /\ ret' = NoRet
     \/ /\ \E u \in Threads \ {t} : AtLock(u)
        /\ procs' = procs
        /\ stack' = [stack EXCEPT ![t] = s]
        /\ ret' = Returned(s, 0, [Val("Count", "", Nil, TRUE, "nil", <<>>) EXCEPT
                                     !.n = Cardinality({k \in Keys : Present(items, k)})])
  /\ UNCHANGED <<now, heap, items, cleanupTimer, cleanupInterval, orphans, cfgVars>>

\* ---------------------------------------------------------------- Flush
\* Flush, lines 239-246.
Flush(t, s, fd) ==
  /\ mu = NoThread
  /\ items' = EmptyMap
  /\ cleanupInterval' = 0
  /\ cleanupTimer' = Stop(cleanupTimer)
  /\ stack' = Replaced([stack EXCEPT ![t] = s], items)
  /\ fired' = fd
  /\ ret' = Returned(s, 0, Val("Flush", "", Nil, TRUE, "nil", <<>>))
  /\ UNCHANGED <<now, heap, orphans, mu, cfgVars, procs>>

\* ------------------------------------------------------- expirationCheck
\* The timer fires: `go table.expirationCheck()` (line 140) starts a goroutine.
TimerFire(t) ==
  /\ Free(t)
  /\ \/ /\ cleanupTimer.st = "armed" /\ cleanupTimer.at <= now
        /\ cleanupTimer' = NoTimer
        /\ orphans' = orphans
     \/ \E d \in BagToSet(orphans) :
           /\ d <= now
           /\ orphans' = orphans (-) SetToBag({d})
           /\ cleanupTimer' = cleanupTimer
  /\ stack' = [stack EXCEPT ![t] = <<Frame("expirationCheck", "ec_lock", "", Nil)>>]
  /\ ret' = NoRet
  /\ UNCHANGED <<now, heap, items, cleanupInterval, mu, cfgVars, runVars, ghostVars>>

\* expirationCheck, lines 110-121: lock, stop the table's timer, read the clock,
\* start ranging over the map.
expirationCheck_lock(t) ==
  /\ At(t, "expirationCheck", "ec_lock") /\ mu = NoThread
  /\ mu' = t
  /\ cleanupTimer' = Stop(cleanupTimer)
  /\ stack' = [stack EXCEPT ![t] =
       SetTop(@, [Top(t) EXCEPT !.pc = "ec_loop", !.now = now, !.small = 0,
                                !.todo = {k \in Keys : Present(items, k)}])]
  /\ ret' = NoRet
  /\ UNCHANGED <<now, heap, items, cleanupInterval, orphans, cfgVars, runVars, ghostVars>>

\* The item the loop holds for key k: the entry of the map object it ranges over.
Ranged(f, k) == IF f.live THEN items[k] ELSE f.old[k]

\* expirationCheck, lines 121-136, for the key the loop has reached.
expirationCheck_body(t, f, k) ==
  LET i == Ranged(f, k)
      rest == [f EXCEPT !.todo = @ \ {k}, !.pc = "ec_loop"]
      found == [rest EXCEPT !.exp = @ \cup {<<k, i>>}]
  IN
  IF heap[i].lifeSpan = 0
  THEN /\ stack' = [stack EXCEPT ![t] = SetTop(@, rest)]
       /\ mu' = mu
  ELSE IF Expired(f.now, heap[i].accessedOn, heap[i].lifeSpan)
  THEN IF Present(items, k)
       THEN deleteInternal_enter(t, SetTop(stack[t], [found EXCEPT !.pc = "ec_call"]), k)
       ELSE /\ stack' = [stack EXCEPT ![t] = SetTop(@, found)]
            /\ mu' = mu
  ELSE /\ stack' = [stack EXCEPT ![t] = SetTop(@,
            [rest EXCEPT !.small =
               Smallest(f.small, heap[i].lifeSpan - (f.now - heap[i].accessedOn))])]
       /\ mu' = mu

\* One turn of the loop: the map yields some entry not yet produced, and
\* item.RLock() (line 122) returns at once.
expirationCheck_item(t) ==
  /\ At(t, "expirationCheck", "ec_loop") /\ mu = t
  /\ \E k \in Top(t).todo :
       /\ CanRLock(Ranged(Top(t), k))
       /\ expirationCheck_body(t, Top(t), k)
  /\ ret' = NoRet
  /\ UNCHANGED <<now, heap, items, cleanupTimer, cleanupInterval, orphans, cfgVars,
                 runVars, ghostVars>>

\* One turn of the loop: item.RLock() has to wait for a writer.
expirationCheck_wait(t) ==
  /\ At(t, "expirationCheck", "ec_loop") /\ mu = t
  /\ \E k \in Top(t).todo :
       /\ ~CanRLock(Ranged(Top(t), k))
       /\ stack' = [stack EXCEPT ![t] =
             SetTop(@, [Top(t) EXCEPT !.pc = "ec_rlock", !.key = k])]
  /\ ret' = NoRet
  /\ UNCHANGED <<now, heap, tableVars, cfgVars, runVars, ghostVars>>

\* The wait at item.RLock() is over.
expirationCheck_rlock(t) ==
  /\ At(t, "expirationCheck", "ec_rlock") /\ mu = t
  /\ CanRLock(Ranged(Top(t), Top(t).key))
  /\ expirationCheck_body(t, Top(t), Top(t).key)
  /\ ret' = NoRet
  /\ UNCHANGED <<now, heap, items, cleanupTimer, cleanupInterval, orphans, cfgVars,
                 runVars, ghostVars>>

\* time.AfterFunc, lines 139-141: the table points at the new timer; the one it
\* pointed at is not stopped here.
Arm(d) ==
  /\ cleanupTimer' = [st |-> "armed", at |-> now + d]
  /\ orphans' = IF cleanupTimer.st = "armed"
                THEN orphans (+) SetToBag({cleanupTimer.at}) ELSE orphans

\* expirationCheck, lines 137-143: the loop is over. Called from addInternal, Add
\* (or NotFoundAdd) returns with it; started by the timer, the goroutine ends.
expirationCheck_end(t) ==
  /\ At(t, "expirationCheck", "ec_loop") /\ mu = t /\ Top(t).todo = {}
  /\ cleanupInterval' = Top(t).small
  /\ IF Top(t).small > 0 THEN Arm(Top(t).small)
     ELSE UNCHANGED <<cleanupTimer, orphans>>
  /\ mu' = NoThread
  /\ IF Len(stack[t]) = 1
     THEN /\ stack' = [stack EXCEPT ![t] = <<>>]
          /\ ret' = [Val("expirationCheck", "", Nil, TRUE, "nil", <<>>)
                      EXCEPT !.exp = Top(t).exp]
     ELSE /\ stack' = [stack EXCEPT ![t] = Pop(@, 2)]
          /\ ret' = Returned(stack[t], 2,
                       [AddResult(stack[t][Len(stack[t]) - 1]) EXCEPT !.exp = Top(t).exp])
  /\ UNCHANGED <<now, heap, items, cfgVars, runVars, fired>>

\* ----------------------------------------------------- callbacks running
\* The stack and `fired` once the callback the innermost frame has reached has
\* been called (and, for a callback that calls nothing, has returned).
Invoked(t) ==
  SetTop(stack[t],
    [Top(t) EXCEPT !.ci = @ + 1,
       !.trace = IF Top(t).pc = "di_cb" THEN Append(@, <<"aboutToDeleteItem", Top(t).item>>)
                 ELSE IF Top(t).pc = "di_exp" THEN Append(@, <<"aboutToExpire", Top(t).key>>)
                 ELSE @])
FiredAfter(t) ==
  IF Top(t).ci # 1 THEN fired
  ELSE IF Top(t).pc = "di_cb" THEN [fired EXCEPT ![Top(t).item].del = @ + 1]
  ELSE IF Top(t).pc = "di_exp" THEN [fired EXCEPT ![Top(t).item].exp = @ + 1]
  ELSE fired

\* deleteInternal, lines 160-164: one table about-to-delete callback, called with
\* the item, the table unlocked.
deleteInternal_callback(t) ==
  /\ At(t, "deleteInternal", "di_cb") /\ Top(t).ci <= Len(Top(t).cbs)
  /\ stack' = [stack EXCEPT ![t] = Invoked(t)]
  /\ fired' = FiredAfter(t)
  /\ ret' = NoRet
  /\ UNCHANGED <<now, heap, tableVars, cfgVars, runVars>>

\* deleteInternal, lines 165-167: r.RLock(), kept until the function returns.
deleteInternal_rlock(t) ==
  /\ At(t, "deleteInternal", "di_cb") /\ Top(t).ci > Len(Top(t).cbs)
  /\ CanRLock(Top(t).item)
  /\ heap' = [heap EXCEPT ![Top(t).item].readers = @ + 1]
  /\ stack' = [stack EXCEPT ![t] = SetTop(@,
        [Top(t) EXCEPT !.pc = "di_exp", !.cbs = heap[Top(t).item].aboutToExpire,
                       !.ci = 1])]
  /\ ret' = NoRet
  /\ UNCHANGED <<now, tableVars, cfgVars, runVars, ghostVars>>

\* deleteInternal, lines 168-170: one about-to-expire callback of the item, called
\* with the key, the item read-locked.
deleteInternal_expire(t) ==
  /\ At(t, "deleteInternal", "di_exp") /\ Top(t).ci <= Len(Top(t).cbs)
  /\ stack' = [stack EXCEPT ![t] = Invoked(t)]
  /\ fired' = FiredAfter(t)
  /\ ret' = NoRet
  /\ UNCHANGED <<now, heap, tableVars, cfgVars, runVars>>

\* deleteInternal, lines 172-175 and the deferred r.RUnlock(): the table is locked
\* again and the key's entry removed. Back in Delete the deferred table.Unlock()
\* runs (line 200); back in expirationCheck the loop goes on with the lock held.
deleteInternal_delete(t) ==
  /\ At(t, "deleteInternal", "di_exp") /\ Top(t).ci > Len(Top(t).cbs)
  /\ mu = NoThread
  /\ LET f == Top(t)
         caller == stack[t][Len(stack[t]) - 1]
     IN
     /\ items' = DeleteEntry(items, f.key)
     /\ heap' = [heap EXCEPT ![f.item].readers = @ - 1]
     /\ IF caller.fn = "Delete"
        THEN /\ mu' = NoThread
             /\ stack' = Removed([stack EXCEPT ![t] = Pop(@, 2)], f.key)
             /\ ret' = Returned(stack[t], 2,
                          Val("Delete", f.key, f.item, TRUE, "nil", f.trace))
        ELSE /\ mu' = t
             /\ ret' = NoRet
             /\ stack' = Removed([stack EXCEPT ![t] =
                   SetTop(Pop(@, 1), [caller EXCEPT !.pc = "ec_loop"])], f.key)
  /\ UNCHANGED <<now, cleanupTimer, cleanupInterval, orphans, cfgVars, runVars, fired>>

\* addInternal, lines 183-187: one on-add callback, called with the item, the
\* table unlocked.
addInternal_callback(t) ==
  /\ ~Idle(t) /\ Top(t).pc = "ai_cb" /\ Top(t).ci <= Len(Top(t).cbs)
  /\ stack' = [stack EXCEPT ![t] = Invoked(t)]
  /\ fired' = FiredAfter(t)
  /\ ret' = NoRet
  /\ UNCHANGED <<now, heap, tableVars, cfgVars, runVars>>

\* ------------------------------------------------------ callback lists
\* AddAddedItemCallback, lines 80-84.
AddAddedItemCallback(t, c) ==
  /\ Free(t) /\ mu = NoThread /\ Len(addedItem) < MaxCb
  /\ addedItem' = Append(addedItem, c)
  /\ ret' = NoRet
  /\ UNCHANGED <<now, heap, tableVars, aboutToDeleteItem, loadData, stack, runVars, ghostVars>>

\* AddAboutToDeleteItemCallback, lines 99-103.
AddAboutToDeleteItemCallback(t, c) ==
  /\ Free(t) /\ mu = NoThread /\ Len(aboutToDeleteItem) < MaxCb
  /\ aboutToDeleteItem' = Append(aboutToDeleteItem, c)
  /\ ret' = NoRet
  /\ UNCHANGED <<now, heap, tableVars, addedItem, loadData, stack, runVars, ghostVars>>

\* part_000 line 82.
Register(item, c) == [item EXCEPT !.aboutToExpire = Append(@, c)]

\* AddAboutToExpireCallback, part_000 lines 79-83, on an item the caller holds a
\* reference to, with no reader inside the item's lock.
AddAboutToExpireCallback(t, i, c) ==
  /\ Free(t) /\ i \in 1..Len(heap) /\ Len(heap[i].aboutToExpire) < MaxCb
  /\ heap[i].writer = NoThread /\ heap[i].readers = 0
  /\ heap' = [heap EXCEPT ![i] = Register(@, c)]
  /\ ret' = NoRet
  /\ UNCHANGED <<now, tableVars, cfgVars, stack, runVars, ghostVars>>

\* The same with readers inside: item.Lock() announces the writer and waits.
AddAboutToExpireCallback_wait(t, i, c) ==
  /\ Free(t) /\ i \in 1..Len(heap) /\ Len(heap[i].aboutToExpire) < MaxCb
  /\ heap[i].writer = NoThread /\ heap[i].readers > 0
  /\ heap' = [heap EXCEPT ![i].writer = t]
  /\ stack' = [stack EXCEPT ![t] =
        <<[Frame("AddAboutToExpireCallback", "il_wait", heap[i].key, i) EXCEPT !.cbs = <<c>>]>>]
  /\ ret' = NoRet
  /\ UNCHANGED <<now, tableVars, cfgVars, runVars, ghostVars>>

\* The readers have left.
AddAboutToExpireCallback_locked(t) ==
  /\ At(t, "AddAboutToExpireCallback", "il_wait")
  /\ heap[Top(t).item].readers = 0
  /\ heap' = [heap EXCEPT ![Top(t).item] =
        [Register(@, Top(t).cbs[1]) EXCEPT !.writer = NoThread]]
  /\ stack' = [stack EXCEPT ![t] = <<>>]
  /\ ret' = NoRet
  /\ UNCHANGED <<now, tableVars, cfgVars, runVars, ghostVars>>

\* ----------------------------------------------- callback lists, setters
\* The list a Set...Callback call, whose frame is f, works on.
List(f) ==
  IF f.fn = "SetAboutToExpireCallback" THEN heap[f.item].aboutToExpire
  ELSE IF f.fn = "SetAddedItemCallback" THEN addedItem
  ELSE aboutToDeleteItem

\* The lock that guards the list is free: the item's for the item's list, the
\* table's for the table's lists.
ListLockFree(f) ==
  IF f.fn = "SetAboutToExpireCallback"
  THEN heap[f.item].writer = NoThread /\ heap[f.item].readers = 0
  ELSE mu = NoThread

\* The list becomes v.
ListWrite(f, v) ==
  /\ heap' = IF f.fn = "SetAboutToExpireCallback"
             THEN [heap EXCEPT ![f.item].aboutToExpire = v] ELSE heap
  /\ addedItem' = IF f.fn = "SetAddedItemCallback" THEN v ELSE addedItem
  /\ aboutToDeleteItem' = IF f.fn = "SetAboutToDeleteItemCallback" THEN v
                          ELSE aboutToDeleteItem

\* The first statement of the three setters (lines 66, 86, part_000 line 71):
\* len(list) > 0 is read with no lock held, and decides whether the Remove
\* function is called. fn is the setter, i the item (Nil for the table's lists),
\* c the new callback.
Set_check(t, fn, i, c) ==
  LET f == [Frame(fn, "set_append", "", i) EXCEPT !.cbs = <<c>>] IN
  /\ stack' = [stack EXCEPT ![t] =
        <<[f EXCEPT !.pc = IF Len(List(f)) > 0 THEN "set_remove" ELSE "set_append"]>>]
  /\ ret' = NoRet
  /\ UNCHANGED <<now, heap, tableVars, cfgVars, procs, ghostVars>>

\* SetAddedItemCallback, lines 65-68.
SetAddedItemCallback(t, n, c) ==
  Free(t) /\ Called(n) /\ Set_check(t, "SetAddedItemCallback", Nil, c)
\* SetAboutToDeleteItemCallback, lines 85-88.
SetAboutToDeleteItemCallback(t, n, c) ==
  Free(t) /\ Called(n) /\ Set_check(t, "SetAboutToDeleteItemCallback", Nil, c)
\* SetAboutToExpireCallback, part_000 lines 70-73, on an item the caller holds.
SetAboutToExpireCallback(t, n, i, c) ==
  /\ Free(t) /\ i \in 1..Len(heap)
  /\ Called(n) /\ Set_check(t, "SetAboutToExpireCallback", i, c)

\* RemoveAddedItemCallbacks (lines 74-78), RemoveAboutToDeleteItemCallback
\* (94-98), RemoveAboutToExpireCallback (part_000 84-88), called by the setter:
\* the list is set to nil under its lock.
Set_remove(t) ==
  /\ ~Idle(t) /\ Top(t).pc = "set_remove" /\ ListLockFree(Top(t))
  /\ ListWrite(Top(t), <<>>)
  /\ stack' = [stack EXCEPT ![t] = SetTop(@, [Top(t) EXCEPT !.pc = "set_append"])]
  /\ ret' = NoRet
  /\ UNCHANGED <<now, tableVars, loadData, runVars, ghostVars>>

\* The setters' last three lines (69-71, 89-91, part_000 74-76): the callback
\* is appended under the lock, and the setter returns.
Set_append(t) ==
  /\ ~Idle(t) /\ Top(t).pc = "set_append" /\ ListLockFree(Top(t))
  /\ ListWrite(Top(t), Append(List(Top(t)), Top(t).cbs[1]))
  /\ stack' = [stack EXCEPT ![t] = <<>>]
  /\ ret' = Val(Top(t).fn, "", Top(t).item, TRUE, "nil", <<>>)
  /\ UNCHANGED <<now, tableVars, loadData, runVars, ghostVars>>

\* ----------------------------------------------------------------- time
Tick(n) ==
  /\ now < n
  /\ now' = now + 1
  /\ ret' = NoRet
  /\ UNCHANGED <<heap, tableVars, cfgVars, stack, runVars, ghostVars>>

\* ------------------------------------------------- calls from user code
\* n is the number of calls the user's code makes at most.
user_Add(t, n, k, l, d) == Free(t) /\ Called(n) /\ Add_call(t, <<>>, fired, k, l, d)
user_NotFoundAdd(t, n, k, l, d) ==
  Free(t) /\ Called(n) /\ NotFoundAdd(t, <<>>, fired, k, l, d)
user_Delete(t, n, k) == Free(t) /\ Called(n) /\ Delete(t, <<>>, fired, k)
user_Value(t, n, k) == Free(t) /\ Called(n) /\ Value(t, <<>>, fired, k)
user_Count(t, n) == Free(t) /\ Called(n) /\ Count(t, <<>>, fired)
user_Flush(t, n) == Free(t) /\ Called(n) /\ Flush(t, <<>>, fired)

\* ------------------------------------------- calls from inside a callback
\* A callback the table is about to call, which calls back into the table.
Site(t) ==
  /\ ~Idle(t) /\ Top(t).pc \in {"ai_cb", "di_cb", "di_exp"}
  /\ Top(t).ci <= Len(Top(t).cbs)
  /\ Len(stack[t]) < MaxDepth
callback_Add(t, k, l, d) ==
  Site(t) /\ nops' = nops /\ Add_call(t, Invoked(t), FiredAfter(t), k, l, d)
callback_Delete(t, k) ==
  Site(t) /\ nops' = nops /\ Delete(t, Invoked(t), FiredAfter(t), k)
callback_Value(t, k) ==
  Site(t) /\ nops' = nops /\ Value(t, Invoked(t), FiredAfter(t), k)

\* ------------------------------------------------------ specifications
\* The steps that carry on what Add, NotFoundAdd, Delete and the timer began,
\* on a table and on items without callbacks.
Run(t) ==
  \/ Add_lock(t)
  \/ addInternal_check(t)
  \/ deleteInternal_rlock(t)
  \/ deleteInternal_delete(t)
  \/ TimerFire(t)
  \/ expirationCheck_lock(t)
  \/ expirationCheck_item(t)
  \/ expirationCheck_end(t)

\* The table's interface without callbacks and without Value.
Next ==
  \/ Tick(MaxTime)
  \/ \E t \in Threads :
       \/ \E k \in Keys, l \in LifeSpans, d \in Data : user_Add(t, MaxOps, k, l, d)
       \/ \E k \in Keys, l \in LifeSpans, d \in Data : user_NotFoundAdd(t, MaxOps, k, l, d)
       \/ \E k \in Keys : user_Delete(t, MaxOps, k)
       \/ user_Flush(t, MaxOps)
       \/ Run(t)

Spec == Init /\ [][Next]_vars

\* The deadlines of the timers that are armed.
Deadlines ==
  (IF cleanupTimer.st = "armed" THEN {cleanupTimer.at} ELSE {}) \cup BagToSet(orphans)
\* No call of the interface and no sweep is under way.
Quiescent == \A t \in Threads : Idle(t)
\* Thread t is in deleteInternal for key k, called by fn.
Deleting(t, k, fn) ==
  /\ Len(stack[t]) >= 2 /\ Top(t).fn = "deleteInternal" /\ Top(t).key = k
  /\ stack[t][Len(stack[t]) - 1].fn = fn

\* C4: an item with lifespan 0 is never removed by a sweep: a step that takes the
\* entry of a key whose item has lifespan 0 out of the map, and puts no other item
\* in its place, is a step of Flush or the last step of an explicit Delete of
\* that key.
C4_NeverSwept ==
  [][\A k \in Keys :
       (items[k] # Nil /\ heap[items[k]].lifeSpan = 0 /\ items'[k] = Nil)
         => \/ ret'.fn = "Flush"
            \/ \E t \in Threads : Deleting(t, k, "Delete") /\ stack'[t] # stack[t]]_vars

\* C6: at most one cleanup timer is armed in every reachable state.
C6_OneTimer == Armed <= 1

\* C7: no expirable item is left unscheduled: when no operation and no sweep is
\* under way and the map holds an item with a lifespan above 0, cleanupInterval
\* is above 0 and a timer is armed.
C7_Scheduled ==
  (Quiescent /\ \E k \in Keys : items[k] # Nil /\ heap[items[k]].lifeSpan > 0)
    => cleanupInterval > 0 /\ Deadlines # {}

\* The delete path with callbacks: the user's code registers a table
\* about-to-delete callback and about-to-expire callbacks on items it holds, then
\* adds and deletes.
NextCb ==
  \/ Tick(ShortTime)
  \/ \E t \in Threads :
       \/ \E c \in Callbacks : AddAboutToDeleteItemCallback(t, c)
       \/ \E i \in 1..MaxItems, c \in Callbacks : AddAboutToExpireCallback(t, i, c)
       \/ \E i \in 1..MaxItems, c \in Callbacks : AddAboutToExpireCallback_wait(t, i, c)
       \/ AddAboutToExpireCallback_locked(t)
       \/ \E k \in OneKey, l \in ShortLifeSpans, d \in Data : user_Add(t, MaxCalls, k, l, d)
       \/ \E k \in OneKey : user_Delete(t, MaxCalls, k)
       \/ user_Flush(t, MaxCalls)
       \/ deleteInternal_callback(t)
       \/ deleteInternal_expire(t)
       \/ Run(t)

SpecCb == Init /\ [][NextCb]_vars

\* n calls of a callback of list `list` with argument arg.
Calls(list, arg, n) == [j \in 1..n |-> <<list, arg>>]
\* A callback of deleteInternal's is about to be called in thread t.
Calling(t) ==
  ~Idle(t) /\ Top(t).fn = "deleteInternal" /\ Top(t).ci <= Len(Top(t).cbs)

\* C3: for every item the first table about-to-delete callback and the item's
\* first about-to-expire callback are called at most once.
C3_Once == \A i \in 1..Len(heap) : fired[i].del <= 1 /\ fired[i].exp <= 1

\* C9: when Delete(key) removes the entry, every table about-to-delete callback
\* that was registered when Delete looked the key up has been called with the
\* item found then, after them every about-to-expire callback of that item with
\* the key, and nothing else; the key is absent after the step, and Delete
\* returns the item the callbacks were called for.
C9_Order ==
  [][\A t \in Threads, k \in Keys :
       (Deleting(t, k, "Delete") /\ Len(stack'[t]) < Len(stack[t])) =>
          /\ Top(t).trace = Calls("aboutToDeleteItem", Top(t).item, Len(Top(t).due))
                             \o Calls("aboutToExpire", k,
                                      Len(heap[Top(t).item].aboutToExpire))
          /\ items'[k] = Nil
          /\ ret' = Val("Delete", k, Top(t).item, TRUE, "nil", Top(t).trace)]_vars
\* Delete has returned an item after calling a table callback and a callback of
\* the item.
C9_Both ==
  ret.fn = "Delete" /\ ret.ok /\ Len(ret.trace) = 2
\* C9 as stated, the part about the map: whenever Delete is about to call a
\* callback, the key is in the map.
C9_Present ==
  \A t \in Threads, k \in Keys :
     (Deleting(t, k, "Delete") /\ Calling(t)) => items[k] # Nil

\* C10: Delete of a key that is not in the map returns ErrKeyNotFound and no
\* item in the same step, calls no callback, changes neither the map nor
\* cleanupInterval nor any timer, and leaves the table unlocked.
C10_Absent ==
  [][\A t \in Threads, k \in Keys :
       (user_Delete(t, MaxCalls, k) /\ items[k] = Nil) =>
          /\ ret' = Val("Delete", k, Nil, FALSE, "ErrKeyNotFound", <<>>)
          /\ stack'[t] = <<>> /\ fired' = fired
          /\ items' = items /\ cleanupInterval' = cleanupInterval
          /\ cleanupTimer' = cleanupTimer /\ orphans' = orphans
          /\ mu' = NoThread]_vars
\* Delete has returned ErrKeyNotFound on a table with a callback registered, an
\* item created and a timer armed.
C10_Returned ==
  /\ ret.fn = "Delete" /\ ret.err = "ErrKeyNotFound"
  /\ aboutToDeleteItem # <<>> /\ Len(heap) > 0 /\ cleanupTimer.st = "armed"

\* Expirable items only, added and flushed.
NextSweep ==
  \/ Tick(ShortTime)
  \/ \E t \in Threads :
       \/ \E k \in Keys, l \in ShortLifeSpans \ {0}, d \in Data : user_Add(t, MaxCalls, k, l, d)
       \/ user_Flush(t, MaxCalls)
       \/ Run(t)

SpecSweep == Init /\ [][NextSweep]_vars

\* C2: every item a sweep found expired (lifespan above 0, idle for at least its
\* lifespan) is in the map no more in the state right after the sweep has ended
\* and released the table lock.
C2_Swept == \A p \in ret.exp : \A k \in Keys : items[k] # p[2]
\* A sweep has ended that found an item expired, and the item's key is in the map
\* again, with an item added since.
C2_Readded == \E p \in ret.exp : items[p[1]] # Nil /\ items[p[1]] # p[2]
\* C2 as stated: the key of every item the sweep found expired is absent from the
\* map in the state right after the sweep.
C2_Absent == \A p \in ret.exp : items[p[1]] = Nil

\* C8: in the state Flush returns in, the map is empty, cleanupInterval is 0 and
\* no cleanup timer is armed.
C8_Flushed ==
  ret.fn = "Flush" => items = EmptyMap /\ cleanupInterval = 0 /\ Deadlines = {}

\* NotFoundAdd against Add and Delete.
NextNFA ==
  \/ Tick(ShortTime)
  \/ \E t \in Threads :
       \/ \E k \in Keys, l \in ShortLifeSpans, d \in Data : user_Add(t, MaxCalls, k, l, d)
       \/ \E k \in Keys, l \in ShortLifeSpans, d \in Data :
             user_NotFoundAdd(t, MaxCalls, k, l, d)
       \/ \E k \in Keys : user_Delete(t, MaxCalls, k)
       \/ Run(t)

SpecNFA == Init /\ [][NextNFA]_vars

\* C1: NotFoundAdd checks and inserts in one step: a call that finds the key in
\* the map returns false and changes neither the map nor any item; a call that
\* finds it absent puts its new item in the map under that key and nothing else,
\* and is the call that returns true with that item.
C1_Atomic ==
  /\ [][\A t \in Threads, k \in Keys, l \in ShortLifeSpans, d \in Data :
          user_NotFoundAdd(t, MaxCalls, k, l, d) =>
            IF items[k] # Nil
            THEN /\ ret' = Val("NotFoundAdd", k, Nil, FALSE, "nil", <<>>)
                 /\ items' = items /\ heap' = heap /\ stack'[t] = <<>>
            ELSE /\ ret' = NoRet
                 /\ items' = [items EXCEPT ![k] = Len(heap) + 1]
                 /\ heap' = Append(heap, NewCacheItem(k, l, d, now))
                 /\ stack'[t][1].fn = "NotFoundAdd" /\ stack'[t][1].item = items'[k]]_vars
  /\ [](ret.fn = "NotFoundAdd" /\ ret.ok => ret.item # Nil /\ heap[ret.item].key = ret.key)
\* A call of NotFoundAdd has returned false while the call that inserted the key
\* is still under way in another thread.
C1_Concurrent ==
  /\ ret.fn = "NotFoundAdd" /\ ~ret.ok
  /\ \E t \in Threads :
        ~Idle(t) /\ stack[t][1].fn = "NotFoundAdd" /\ stack[t][1].key = ret.key

\* Callbacks that call back into the table, in a program of one goroutine (and
\* the goroutines its timers start, one at a time).
InitR == Fresh /\ procs = {"t1"}

NextR ==
  \/ Tick(ShortTime)
  \/ \E t \in Threads :
       \/ \E c \in Callbacks : AddAddedItemCallback(t, c)
       \/ \E c \in Callbacks : AddAboutToDeleteItemCallback(t, c)
       \/ \E i \in 1..MaxItems, c \in Callbacks : AddAboutToExpireCallback(t, i, c)
       \/ \E k \in OneKey, l \in ShortLifeSpans, d \in Data : user_Add(t, MaxOps, k, l, d)
       \/ \E k \in OneKey : user_Delete(t, MaxOps, k)
       \/ addInternal_callback(t)
       \/ deleteInternal_callback(t)
       \/ deleteInternal_expire(t)
       \/ \E k \in OneKey, l \in ShortLifeSpans, d \in Data : callback_Add(t, k, l, d)
       \/ \E k \in OneKey : callback_Delete(t, k)
       \/ \E k \in OneKey : callback_Value(t, k)
       \/ KeepAlive_wait(t)
       \/ KeepAlive(t)
       \/ Run(t)

SpecR == InitR /\ [][NextR]_vars

\* Thread t holds the read lock of item i: it is in deleteInternal past r.RLock().
ReadHeld(t, i) ==
  \E n \in 1..Len(stack[t]) :
     stack[t][n].fn = "deleteInternal" /\ stack[t][n].pc = "di_exp" /\ stack[t][n].item = i

\* C5: a thread that is about to call a callback does not hold the table lock,
\* and no thread waits for the write lock of an item whose read lock it holds
\* itself.
C5_NoSelfDeadlock ==
  \A t \in Threads :
     /\ (~Idle(t) /\ Top(t).pc \in {"ai_cb", "di_cb", "di_exp"}) => mu # t
     /\ ~(At(t, "Value", "il_wait") /\ ReadHeld(t, Top(t).item))

\* Lookups with a loader: the user's code sets the loader, adds, looks up and
\* deletes.
LoaderLifeSpans == {0, 1}
LoaderData == {"y"}

NextLoad ==
  \/ Tick(ShortTime)
  \/ \E t \in Threads :
       \/ \E f \in BOOLEAN : SetDataLoader(t, f)
       \/ \E k \in OneKey, l \in ShortLifeSpans, d \in Data : user_Add(t, MaxCalls, k, l, d)
       \/ \E k \in OneKey : user_Delete(t, MaxCalls, k)
       \/ \E k \in OneKey : user_Value(t, MaxCalls, k)
       \/ Value_none(t)
       \/ \E l \in LoaderLifeSpans, d \in LoaderData : Value_load(t, l, d)
       \/ Value_add(t)
       \/ Value_return(t)
       \/ KeepAlive_wait(t)
       \/ KeepAlive(t)
       \/ Run(t)

SpecLoad == Init /\ [][NextLoad]_vars

\* C11: a Value that finds the key absent returns ErrKeyNotFound at once when no
\* loader is set; when one is set it calls the loader, and when the loader
\* returns nil it returns ErrKeyNotFoundOrLoadable; both return no item, and
\* neither the lookup nor the return changes the map or creates an item.
C11_Miss ==
  /\ [][\A t \in Threads, k \in Keys :
          (user_Value(t, MaxCalls, k) /\ items[k] = Nil) =>
             /\ items' = items /\ heap' = heap
             /\ IF loadData
                THEN ret' = NoRet /\ At(t, "Value", "val_load")'
                ELSE /\ ret' = Val("Value", k, Nil, FALSE, "ErrKeyNotFound", <<>>)
                     /\ stack'[t] = <<>>]_vars
  /\ [][\A t \in Threads :
          (At(t, "Value", "val_load") /\ stack'[t] = <<>>) =>
             /\ ret' = Val("Value", Top(t).key, Nil, FALSE, "ErrKeyNotFoundOrLoadable", <<>>)
             /\ items' = items /\ heap' = heap]_vars
\* Value has returned ErrKeyNotFoundOrLoadable on a table that held the key
\* before.
C11_Unloadable == ret.err = "ErrKeyNotFoundOrLoadable" /\ Len(heap) > 0

\* Thread t is in the Add that Value calls with the loader's item, about to take
\* the table lock.
Loading(t) ==
  /\ Len(stack[t]) >= 2 /\ At(t, "Add", "add_lock")
  /\ stack[t][Len(stack[t]) - 1].fn = "Value"

\* C12: when the loader returns an item, Value calls Add, which creates a new
\* item with the key, the loader item's lifespan and data, access count 0 and
\* the time of that call; the step of Add that takes the table lock maps the key
\* to this new item, which is not the loader's object; and Value returns the
\* loader's object without an error, changing nothing else.
C12_Loaded ==
  /\ [][\A t \in Threads :
          (At(t, "Value", "val_add") /\ stack'[t] # stack[t]) =>
             /\ heap' = Append(heap, NewCacheItem(Top(t).key, heap[Top(t).item].lifeSpan,
                                                  heap[Top(t).item].data, now))
             /\ Loading(t)' /\ Top(t)'.item = Len(heap) + 1 /\ Top(t)'.key = Top(t).key
             /\ items' = items]_vars
  /\ [][\A t \in Threads :
          (Loading(t) /\ stack'[t] # stack[t]) =>
             LET loaded == stack[t][Len(stack[t]) - 1].item IN
             /\ items' = [items EXCEPT ![Top(t).key] = Top(t).item]
             /\ Top(t).item # loaded
             /\ heap'[Top(t).item].accessCount = 0
             /\ heap'[Top(t).item].lifeSpan = heap[loaded].lifeSpan
             /\ heap'[Top(t).item].data = heap[loaded].data
             /\ heap'[Top(t).item].createdOn >= heap[loaded].createdOn]_vars
  /\ [][\A t \in Threads :
          (At(t, "Value", "val_ret") /\ stack'[t] # stack[t]) =>
             /\ ret' = Val("Value", Top(t).key, Top(t).item, TRUE, "nil", <<>>)
             /\ heap[Top(t).item].data \in LoaderData
             /\ items' = items /\ heap' = heap]_vars
\* Value has returned the loader's item, and the map holds the key with another
\* item, never read, that has the loader's data.
C12_Stored ==
  /\ ret.fn = "Value" /\ ret.ok /\ heap[ret.item].accessCount = 0
  /\ items[ret.key] # Nil /\ items[ret.key] # ret.item
  /\ heap[items[ret.key]].data \in LoaderData /\ heap[items[ret.key]].accessCount = 0
\* C12 as stated: in the state Value returns the loader's item in, the map holds
\* the key.
C12_Exists ==
  (ret.fn = "Value" /\ ret.ok /\ heap[ret.item].accessCount = 0) => items[ret.key] # Nil

\* One goroutine of the user's code, which adds and looks up one key, and the
\* goroutines the timers start.
Callers == {"t1"}

NextRT ==
  \/ Tick(ShortTime)
  \/ \E t \in Callers :
       \/ \E k \in OneKey, l \in ShortLifeSpans, d \in Data : user_Add(t, MaxCalls, k, l, d)
       \/ \E k \in OneKey : user_Value(t, MaxCalls, k)
  \/ \E t \in Threads :
       \/ KeepAlive_wait(t)
       \/ KeepAlive(t)
       \/ Run(t)

SpecRT == Init /\ [][NextRT]_vars

\* Item i has not been idle for its lifespan yet.
Alive(i) == heap[i].lifeSpan = 0 \/ now - heap[i].accessedOn < heap[i].lifeSpan

\* C13: a Value(k) called in the state Add(k, L, d) has returned in, before L has
\* elapsed, finds the item that Add created.
C13_RoundTrip ==
  [][\A t \in Callers, k \in OneKey :
       (ret.fn = "Add" /\ ret.key = k /\ Alive(ret.item) /\ user_Value(t, MaxCalls, k)) =>
          /\ At(t, "Value", "il_lock")' /\ Top(t)'.item = ret.item]_vars

\* C14, in a program whose only callers of the table are one goroutine and the
\* timers: when an Add that has replaced the key's item returns, before the
\* lifespan of its own item has elapsed, the map holds that item under the key.
C14_Holds ==
  [][\A t \in Callers :
       (~Idle(t) /\ stack[t][1].fn = "Add" /\ stack[t][1].over # Nil
          /\ Idle(t)' /\ Alive(stack[t][1].item)) =>
             items'[stack[t][1].key] = stack[t][1].item]_vars

\* Count among Add and Delete.
NextCount ==
  \/ Tick(ShortTime)
  \/ \E t \in Threads :
       \/ \E k \in Keys, l \in ShortLifeSpans, d \in Data : user_Add(t, MaxCalls, k, l, d)
       \/ \E k \in Keys : user_Delete(t, MaxCalls, k)
       \/ user_Count(t, MaxCalls)
       \/ Run(t)

SpecCount == Init /\ [][NextCount]_vars

\* C15: Count returns, in the step that takes the read lock, the number of
\* entries the map holds then, and leaves the map, the timers, cleanupInterval
\* and the table lock as they were.
C15_Count ==
  [][\A t \in Threads :
       user_Count(t, MaxCalls) =>
          /\ ret'.fn = "Count" /\ ret'.n = Cardinality({k \in Keys : items[k] # Nil})
          /\ UNCHANGED tableVars]_vars

\* C16: a sweep removes an item with a lifespan above 0 only when the item has
\* existed for at least its lifespan: one that is younger has had no gap between
\* its creation and its lookups as long as the lifespan, and is kept.
C16_KeptAlive ==
  [][\A t \in Threads, k \in Keys :
       (Deleting(t, k, "expirationCheck") /\ items[k] # Nil /\ items'[k] = Nil
          /\ heap[items[k]].lifeSpan > 0) =>
             now - heap[items[k]].createdOn >= heap[items[k]].lifeSpan]_vars

\* Delete, Value and the sweep on one key, in three goroutines.
NextLocks ==
  \/ Tick(ShortTime)
  \/ \E t \in Threads :
       \/ \E k \in OneKey, l \in ShortLifeSpans \ {0}, d \in Data :
             user_Add(t, MaxCalls, k, l, d)
       \/ \E k \in OneKey : user_Delete(t, MaxCalls, k)
       \/ \E k \in OneKey : user_Value(t, MaxCalls, k)
       \/ KeepAlive_wait(t)
       \/ KeepAlive(t)
       \/ expirationCheck_wait(t)
       \/ Run(t)

SpecLocks == Init3 /\ [][NextLocks]_vars

\* Goroutine t waits: for the table lock another goroutine holds, for the read
\* lock of an item a writer has announced itself on, or for the write lock of an
\* item with readers inside.
Blocked(t) ==
  \/ AtLock(t) /\ mu # NoThread
  \/ At(t, "expirationCheck", "ec_rlock") /\ ~CanRLock(Ranged(Top(t), Top(t).key))
  \/ At(t, "Value", "il_wait") /\ heap[Top(t).item].readers > 0

\* C17: the interleavings of Delete, Value and a sweep reach no state in which
\* every goroutine is in a call and waits for a lock that only another of them
\* can release.
C17_NoDeadlock == ~(\A t \in Threads : ~Idle(t) /\ Blocked(t))

\* What is left of the lifespan of every expirable item map m holds, at time n.
Remaining(m, n) ==
  {heap[m[k]].lifeSpan - (n - heap[m[k]].accessedOn) :
     k \in {j \in Keys : m[j] # Nil /\ heap[m[j]].lifeSpan > 0}}
\* The least of them, 0 when there is none.
MinRemaining(m, n) ==
  IF Remaining(m, n) = {} THEN 0
  ELSE CHOOSE d \in Remaining(m, n) : \A x \in Remaining(m, n) : d <= x

\* C18: the step that ends a sweep sets cleanupInterval to the least remaining
\* lifespan, at the time the sweep read the clock, of the expirable items the
\* map holds after the step, or to 0 if there is none; the table's timer is armed
\* for that duration if and only if the value is above 0, and with the value 0
\* no timer is pending.
C18_Interval ==
  [][\A t \in Threads :
       expirationCheck_end(t) =>
          /\ cleanupInterval' = MinRemaining(items', Top(t).now)
          /\ cleanupInterval' > 0 <=>
                (cleanupTimer'.st = "armed" /\ cleanupTimer'.at = now + cleanupInterval')
          /\ cleanupInterval' = 0 => Deadlines' = {}]_vars

\* Goroutine t is in a sweep whose map Flush has replaced.
Flushed(t) ==
  \E n \in 1..Len(stack[t]) : stack[t][n].fn = "expirationCheck" /\ ~stack[t][n].live

\* C19: a sweep that was under way when Flush ran takes no entry out of the new
\* map, and when it ends it leaves the table scheduled, with cleanupInterval
\* above 0 and a timer armed, only if the map holds an expirable item.
C19_NoWork ==
  [][\A t \in Threads :
       (Flushed(t) /\ stack'[t] # stack[t]) =>
          /\ items' = items
          /\ (expirationCheck_end(t) /\ cleanupInterval' > 0) =>
                Remaining(items', now) # {}]_vars

\* The setters, called by two goroutines on the table's lists and on the list of
\* an item that was added before.
SetCallbacks == {"f", "g"}
Forever == {0}

NextSet ==
  \E t \in Threads :
     \/ \E k \in OneKey, l \in Forever, d \in Data : user_Add(t, MaxCalls, k, l, d)
     \/ Add_lock(t)
     \/ addInternal_check(t)
     \/ \E c \in SetCallbacks : SetAddedItemCallback(t, MaxCalls, c)
     \/ \E c \in SetCallbacks : SetAboutToDeleteItemCallback(t, MaxCalls, c)
     \/ \E i \in 1..MaxItems, c \in SetCallbacks : SetAboutToExpireCallback(t, MaxCalls, i, c)
     \/ Set_remove(t)
     \/ Set_append(t)

SpecSet == Init /\ [][NextSet]_vars

\* A call of setter fn (on item i, for the item's setter) is under way.
Setting(fn, i) ==
  \E t \in Threads : ~Idle(t) /\ Top(t).fn = fn /\ Top(t).item = i

\* C20: in the state a setter returns in, with no other call of that setter on
\* the same list under way, the list holds exactly one callback.
C20_One ==
  /\ (ret.fn = "SetAddedItemCallback" /\ ~Setting(ret.fn, Nil)) => Len(addedItem) = 1
  /\ (ret.fn = "SetAboutToDeleteItemCallback" /\ ~Setting(ret.fn, Nil))
        => Len(aboutToDeleteItem) = 1
  /\ (ret.fn = "SetAboutToExpireCallback" /\ ~Setting(ret.fn, ret.item))
        => Len(heap[ret.item].aboutToExpire) = 1

====
